---- MODULE Spec2Model ----
(***************************************************************************)
(* AERODAS pre/post-stall blending of SUAVE:                               *)
(*   trunk/SUAVE/Methods/Aerodynamics/AERODAS/AERODAS_setup.py             *)
(* setup_data, lift_drag_total and drag_total, acting on the caller's      *)
(* state.conditions.aerodynamics, settings and geometry objects.           *)
(*                                                                         *)
(* The array library of the file is JAX: line 11 reads                     *)
(*   import jax.numpy as np                                                *)
(* so np.fmax / np.fmin return jax Arrays.  A jax Array is immutable: its  *)
(* __setitem__ raises TypeError ("JAX arrays are immutable and do not      *)
(* support in-place item assignment"), whatever the index and the value.   *)
(* Line 106, CL[alpha<=A0] = ..., is such an assignment.                   *)
(*                                                                         *)
(* Numbers: coefficients, areas and angles are small integers; a quotient  *)
(* x*area/ref is the pair <<numerator, denominator>> (denominator 0 is the *)
(* inf/nan an array division by zero yields).                              *)
(***************************************************************************)
EXTENDS Integers, Sequences, FiniteSets, TLC

\* ------------------------------------------------------------------ bounds
\* longest angle-of-attack sequence
MaxLen == 2
\* most wings in geometry.wings
MaxWings == 2

\* angle-of-attack samples: at the pivot and above it
AlphaVals == {0, 1}
\* settings.section_zero_lift_angle_of_attack, the pivot A0
PivotVals == {0}
\* geometry.reference_area
RefAreas == {-1, 0, 3}
\* settings.drag_coefficient_increment
Increments == {0, 1}
\* wing.tag: the k-th wing of geometry.wings carries tag k
Tags == 1..MaxWings
Lens == 1..MaxLen

\* aero      state.conditions.aerodynamics: angle_of_attack, the two curve
\*           mappings, lift_coefficient and drag_coefficient
\* settings  section_zero_lift_angle_of_attack, drag_coefficient_increment
\* geometry  reference_area, wings
\* last      the last call and its outcome (history)
\* fresh     lift_drag_total has returned since the curves in aero were last
\*           written or reset: the aggregate in aero is the one of the
\*           current evaluation point (history)
VARIABLES aero, settings, geometry, last, fresh

vars == <<aero, settings, geometry, last, fresh>>

\* ------------------------------------------------------------- numbers
Rat(n, d) == <<n, d>>

RatAdd(a, b) == <<a[1] * b[2] + b[1] * a[2], a[2] * b[2]>>

\* both finite and equal
RatEq(a, b) == a[2] # 0 /\ b[2] # 0 /\ a[1] * b[2] = b[1] * a[2]

Max(x, y) == IF x >= y THEN x ELSE y

Min(x, y) == IF x <= y THEN x ELSE y

\* a Python float (shape "scalar", one entry) or a 1-D array
Scalar(r) == [present |-> TRUE, shape |-> "scalar", v |-> <<r>>]

Array(s) == [present |-> TRUE, shape |-> "array", v |-> s]

\* an attribute that the Data object does not hold
NoValue == [present |-> FALSE, shape |-> "none", v |-> <<>>]

\* ------------------------------------------------- jax.numpy operations
\* numpy broadcasting of two 1-D arrays: equal lengths, or one of length 1
Broadcastable(a, b) == Len(a) = Len(b) \/ Len(a) = 1 \/ Len(b) = 1

BLen(a, b) == Max(Len(a), Len(b))

At(a, i) == IF Len(a) = 1 THEN a[1] ELSE a[i]

\* np.fmax(a, b), element-wise maximum (defined when Broadcastable)
fmax(a, b) == [i \in 1..BLen(a, b) |-> Max(At(a, i), At(b, i))]

\* np.fmin(a, b), element-wise minimum (defined when Broadcastable)
fmin(a, b) == [i \in 1..BLen(a, b) |-> Min(At(a, i), At(b, i))]

\* alpha <= A0, the boolean mask of line 106
Mask(alpha, A0) == [i \in 1..Len(alpha) |-> alpha[i] <= A0]

\* a[mask] on the right-hand side: needs a mask as long as a (else IndexError)
Indexable(a, mask) == Len(a) = Len(mask)

\* a[mask]: the entries of a where mask holds, in order
Select(a, mask) ==
  LET F[i \in 0..Len(a)] ==
        IF i = 0 THEN <<>>
        ELSE IF mask[i] THEN Append(F[i - 1], a[i]) ELSE F[i - 1]
  IN F[Len(a)]

\* CL[mask] = vals on the jax Array that np.fmax returned: Array.__setitem__
\* raises TypeError and leaves CL as it was
setitem(CL, mask, vals) == [ok |-> FALSE, err |-> "TypeError", v |-> CL]

\* xs * area / ref, element-wise
Weighted(xs, area, ref) == [i \in 1..Len(xs) |-> Rat(xs[i] * area, ref)]

\* total + xs may broadcast: a float total always, an array total when
\* Broadcastable
CanAdd(total, xs) == total.shape = "scalar" \/ Broadcastable(total.v, xs)

\* total + xs
Add(total, xs) ==
  IF total.shape = "scalar"
  THEN Array([i \in 1..Len(xs) |-> RatAdd(total.v[1], xs[i])])
  ELSE Array([i \in 1..BLen(total.v, xs) |-> RatAdd(At(total.v, i), At(xs, i))])

\* total + increment, a scalar added to every element
AddScalar(total, c) ==
  [total EXCEPT !.v = [i \in 1..Len(total.v) |-> RatAdd(total.v[i], Rat(c, 1))]]

\* ------------------------------------------------------- data objects
\* pre_stall_coefficients[tag] / post_stall_coefficients[tag]: a Data with
\* lift_coefficient and drag_coefficient, or no entry under that tag
NoCurve == [present |-> FALSE, lift_coefficient |-> <<>>, drag_coefficient |-> <<>>]

\* the coefficient tables the curves are filled from: pre- and post-stall
\* lift cross each other from sample to sample, and so do the drags
Coef(regime, field, k, i) ==
  IF field = "lift"
  THEN IF regime = "pre" THEN 1 + ((i + k) % 2) ELSE 2 - ((i + k) % 2)
  ELSE IF regime = "pre" THEN 1 ELSE 2 * ((i + k) % 2)

\* the curve of wing k in a regime, with ll lift samples and dl drag samples
Curve(regime, k, ll, dl) ==
  [present |-> TRUE,
   lift_coefficient |-> [i \in 1..ll |-> Coef(regime, "lift", k, i)],
   drag_coefficient |-> [i \in 1..dl |-> Coef(regime, "drag", k, i)]]

\* wing k of geometry.wings: wing.tag, wing.areas.reference, wing.vertical
Wing(k, vertical) == [tag |-> k, area |-> k, vertical |-> vertical]

\* what a call of lift_drag_total left behind for the next one to compare
\* with; any other call leaves NoSummary
NoSummary ==
  [op |-> "none", kind |-> "none", err |-> "none",
   CL_total |-> NoValue, CD_total |-> NoValue]

Summary(l) ==
  IF l.op = "lift_drag_total"
  THEN [op |-> l.op, kind |-> l.kind, err |-> l.err,
        CL_total |-> l.CL_total, CD_total |-> l.CD_total]
  ELSE NoSummary

\* the three objects a call is given, as they were when it was made
Given(a, s, g) == [aero |-> a, settings |-> s, geometry |-> g]

\* the record of the last call: what it returned or raised, the per-wing
\* CL and CD of the loop, the objects as they were before the call, and the
\* summary of the call before it
NoCall ==
  [op |-> "none", kind |-> "none", err |-> "none",
   CL_total |-> NoValue, CD_total |-> NoValue, CL |-> <<>>, CD |-> <<>>,
   result |-> NoValue, before |-> <<>>, prev |-> NoSummary]

\* ------------------------------------------------------------ setup_data
setup_data ==
  /\ aero' = [aero EXCEPT !.pre_stall_coefficients = [t \in Tags |-> NoCurve],
                          !.post_stall_coefficients = [t \in Tags |-> NoCurve]]
  /\ last' = [NoCall EXCEPT !.op = "setup_data", !.kind = "return",
                            !.before = Given(aero, settings, geometry),
                            !.prev = Summary(last)]
  /\ fresh' = FALSE
  /\ UNCHANGED <<settings, geometry>>

\* ------------------------------------------------------- lift_drag_total
\* lines 82-84: prime the totals
Primed ==
  [ok |-> TRUE, err |-> "none", CL_total |-> Scalar(Rat(0, 1)),
   CD_total |-> Scalar(Rat(0, 1)), CL |-> <<>>, CD |-> <<>>]

Raise(acc, err) == [acc EXCEPT !.ok = FALSE, !.err = err]

\* lines 95-117: the loop body for one wing
WingBody(wing, a, A0, ref, acc) ==
  LET alpha == a.angle_of_attack
      pre   == a.pre_stall_coefficients[wing.tag]
      post  == a.post_stall_coefficients[wing.tag]
      area  == wing.area
      CL1   == pre.lift_coefficient
      CD1   == pre.drag_coefficient
      CL2   == post.lift_coefficient
      CD2   == post.drag_coefficient
      mask  == Mask(alpha, A0)
      set   == setitem(fmax(CL1, CL2), mask,
                       fmin(Select(CL1, mask), Select(CL2, mask)))
      CL    == set.v
      CD    == fmax(CD1, CD2)
  IN
  IF ~pre.present \/ ~post.present THEN Raise(acc, "MissingKey")
  ELSE IF ~Broadcastable(CL1, CL2) THEN Raise(acc, "IncompatibleShapes")
  ELSE IF ~Indexable(CL1, mask) \/ ~Indexable(CL2, mask) THEN Raise(acc, "IndexError")
  ELSE IF ~set.ok THEN Raise(acc, set.err)
  ELSE IF ~Broadcastable(CD1, CD2) THEN Raise(acc, "IncompatibleShapes")
  ELSE IF ~CanAdd(acc.CD_total, CD) THEN Raise(acc, "IncompatibleShapes")
  ELSE IF wing.vertical = FALSE /\ ~CanAdd(acc.CL_total, CL)
       THEN Raise([acc EXCEPT !.CD_total = Add(@, Weighted(CD, area, ref))],
                  "IncompatibleShapes")
  ELSE [acc EXCEPT
          !.CD_total = Add(@, Weighted(CD, area, ref)),
          !.CL_total = IF wing.vertical = FALSE
                       THEN Add(@, Weighted(CL, area, ref)) ELSE @,
          !.CL = Append(@, CL),
          !.CD = Append(@, CD)]

\* line 93: for wing in geometry.wings, left when a wing's body raises
RECURSIVE WingLoop(_, _, _, _, _)
WingLoop(wings, a, A0, ref, acc) ==
  IF wings = <<>> \/ ~acc.ok THEN acc
  ELSE WingLoop(Tail(wings), a, A0, ref, WingBody(Head(wings), a, A0, ref, acc))

\* lines 82-120: the totals when the function reaches its return, or the
\* exception that ended it with the totals accumulated so far
Totals(a, s, g) ==
  LET acc == WingLoop(g.wings, a, s.section_zero_lift_angle_of_attack,
                      g.reference_area, Primed)
  IN IF acc.ok
     THEN [acc EXCEPT !.CD_total = AddScalar(@, s.drag_coefficient_increment)]
     ELSE acc

\* Pack with the drag left out
PackLiftOnly(a, out) == [a EXCEPT !.lift_coefficient = out.CL_total]

\* lines 122-124: pack outputs
Pack(a, out) ==
  [a EXCEPT !.lift_coefficient = out.CL_total, !.drag_coefficient = out.CD_total]

\* AeroAfter with the outputs packed whether or not the loop finished
AeroAfterAlways(a, out) ==
  [a EXCEPT !.lift_coefficient = out.CL_total, !.drag_coefficient = out.CD_total]

\* state.conditions.aerodynamics after the call: the outputs are packed
\* after the loop, so an exception leaves the object as it was
AeroAfter(a, out) == IF out.ok THEN Pack(a, out) ELSE a

lift_drag_total ==
  LET out == Totals(aero, settings, geometry) IN
  /\ aero' = AeroAfter(aero, out)
  /\ last' = [op |-> "lift_drag_total",
              kind |-> IF out.ok THEN "return" ELSE "raise",
              err |-> out.err,
              CL_total |-> IF out.ok THEN out.CL_total ELSE NoValue,
              CD_total |-> IF out.ok THEN out.CD_total ELSE NoValue,
              CL |-> IF out.ok THEN out.CL ELSE <<>>,
              CD |-> IF out.ok THEN out.CD ELSE <<>>,
              result |-> NoValue,
              before |-> Given(aero, settings, geometry),
              prev |-> Summary(last)]
  /\ fresh' = IF out.ok THEN TRUE ELSE fresh
  /\ UNCHANGED <<settings, geometry>>

\* ------------------------------------------------------------ drag_total
\* line 153: CD = state.conditions.aerodynamics.drag_coefficient
ReadDrag(a) ==
  IF a.drag_coefficient.present
  THEN [ok |-> TRUE, err |-> "none", CD |-> a.drag_coefficient]
  ELSE [ok |-> FALSE, err |-> "MissingAttribute", CD |-> NoValue]

drag_total ==
  LET r == ReadDrag(aero) IN
  /\ last' = [NoCall EXCEPT !.op = "drag_total",
                            !.kind = IF r.ok THEN "return" ELSE "raise",
                            !.err = r.err,
                            !.result = r.CD,
                            !.before = Given(aero, settings, geometry),
                            !.prev = Summary(last)]
  /\ UNCHANGED <<aero, settings, geometry, fresh>>

\* ------------------------------------------------- the upstream models
\* The analysis runs, for every wing of geometry.wings, the pre-stall and the
\* post-stall model; each stores the wing's curve, computed from the angle of
\* attack and so as long as it, under the wing's tag.
wings_lift_model ==
  LET N == Len(aero.angle_of_attack)
      n == Len(geometry.wings)
  IN
  /\ aero' = [aero EXCEPT
                !.pre_stall_coefficients =
                   [t \in Tags |-> IF t <= n THEN Curve("pre", t, N, N) ELSE @[t]],
                !.post_stall_coefficients =
                   [t \in Tags |-> IF t <= n THEN Curve("post", t, N, N) ELSE @[t]]]
  /\ last' = [NoCall EXCEPT !.op = "wings_lift_model", !.kind = "return",
                            !.before = Given(aero, settings, geometry),
                            !.prev = Summary(last)]
  /\ fresh' = FALSE
  /\ UNCHANGED <<settings, geometry>>

\* ------------------------------------------------------------------ Init
\* What the caller hands in: every curve as long as alpha, but for at most one
\* array of one wing's curve (a length other than alpha's) or one missing tag.
NoDefect == [kind |-> "none", tag |-> 0, regime |-> "pre", len |-> 0]

Defects(n, N) ==
  {NoDefect}
  \cup [kind : {"absent"}, tag : 1..n, regime : {"pre", "post"}, len : {0}]
  \cup [kind : {"lift", "drag"}, tag : 1..n, regime : {"pre", "post"},
        len : Lens \ {N}]

Supplied(regime, n, N, d) ==
  [t \in Tags |->
     IF t > n THEN NoCurve
     ELSE IF d.tag = t /\ d.regime = regime
          THEN IF d.kind = "absent" THEN NoCurve
               ELSE IF d.kind = "lift" THEN Curve(regime, t, d.len, N)
               ELSE Curve(regime, t, N, d.len)
          ELSE Curve(regime, t, N, N)]

\* the outputs an earlier evaluation left in state
Stale(N) == Array([i \in 1..N |-> Rat(1, 1)])

Init ==
  \E N \in Lens, n \in 0..MaxWings :
    \E alpha \in [1..N -> AlphaVals], vertical \in [1..n -> BOOLEAN],
       d \in Defects(n, N), held \in BOOLEAN :
      /\ aero = [angle_of_attack |-> alpha,
                 pre_stall_coefficients |-> Supplied("pre", n, N, d),
                 post_stall_coefficients |-> Supplied("post", n, N, d),
                 lift_coefficient |-> IF held THEN Stale(N) ELSE NoValue,
                 drag_coefficient |-> IF held THEN Stale(N) ELSE NoValue]
      /\ settings \in [section_zero_lift_angle_of_attack : PivotVals,
                       drag_coefficient_increment : Increments]
      /\ geometry \in [reference_area : RefAreas,
                       wings : {[k \in 1..n |-> Wing(k, vertical[k])]}]
      /\ last = NoCall
      /\ fresh = FALSE

Next ==
  \/ setup_data
  \/ wings_lift_model
  \/ lift_drag_total
  \/ drag_total

Spec == Init /\ [][Next]_vars

\* ------------------------------------------------------------ the claims
\* lift_drag_total has just been called
Called == last.op = "lift_drag_total"

NumWings == Len(geometry.wings)

NumSamples == Len(aero.angle_of_attack)

Pre(k) == aero.pre_stall_coefficients[k]

Post(k) == aero.post_stall_coefficients[k]

\* every wing has its two curves and every array is as long as alpha
WellFormed ==
  \A k \in 1..NumWings :
    /\ Pre(k).present /\ Post(k).present
    /\ Len(Pre(k).lift_coefficient) = NumSamples
    /\ Len(Pre(k).drag_coefficient) = NumSamples
    /\ Len(Post(k).lift_coefficient) = NumSamples
    /\ Len(Post(k).drag_coefficient) = NumSamples

\* Equations 3a and 3b for wing k at sample i
BlendedLift(k, i) ==
  IF aero.angle_of_attack[i] > settings.section_zero_lift_angle_of_attack
  THEN Max(Pre(k).lift_coefficient[i], Post(k).lift_coefficient[i])
  ELSE Min(Pre(k).lift_coefficient[i], Post(k).lift_coefficient[i])

\* Equation 3c for wing k at sample i
BlendedDrag(k, i) == Max(Pre(k).drag_coefficient[i], Post(k).drag_coefficient[i])

\* sum over the horizontal wings of lift * area, at sample i
LiftSum(i) ==
  LET F[k \in 0..NumWings] ==
        IF k = 0 THEN 0
        ELSE F[k - 1] + IF geometry.wings[k].vertical THEN 0
                        ELSE BlendedLift(k, i) * geometry.wings[k].area
  IN F[NumWings]

\* sum over all wings of drag * area, at sample i
DragSum(i) ==
  LET F[k \in 0..NumWings] ==
        IF k = 0 THEN 0
        ELSE F[k - 1] + BlendedDrag(k, i) * geometry.wings[k].area
  IN F[NumWings]

\* C1: after a call on well-formed curves of at least one wing, the lift of
\* every wing at every sample that went into the sum is the larger of the
\* pre- and post-stall lift where alpha > zero-lift angle and the smaller
\* where alpha <= zero-lift angle.
C1_LiftByPivot ==
  (Called /\ NumWings >= 1 /\ WellFormed /\ geometry.reference_area > 0) =>
    /\ last.kind = "return"
    /\ Len(last.CL) = NumWings
    /\ \A k \in 1..NumWings : \A i \in 1..NumSamples :
         last.CL[k][i] = BlendedLift(k, i)

\* C2: after a call on well-formed curves of at least one wing, the drag of
\* every wing at every sample that went into the sum is the larger of the
\* pre- and post-stall drag, whatever alpha is.
C2_DragIsMax ==
  (Called /\ NumWings >= 1 /\ WellFormed /\ geometry.reference_area > 0) =>
    /\ last.kind = "return"
    /\ Len(last.CD) = NumWings
    /\ \A k \in 1..NumWings : \A i \in 1..NumSamples :
         last.CD[k][i] = BlendedDrag(k, i)

\* C3: with a vertical wing among the wings, CL_total is the area-weighted
\* sum over the horizontal wings alone (no term of a vertical wing's lift
\* curves), while CD_total holds every wing's term, the vertical ones too.
C3_VerticalLiftExcluded ==
  (/\ Called /\ WellFormed /\ geometry.reference_area > 0
   /\ \E k \in 1..NumWings : geometry.wings[k].vertical) =>
    /\ last.kind = "return"
    /\ \A i \in 1..NumSamples :
         /\ RatEq(At(last.CL_total.v, i), Rat(LiftSum(i), geometry.reference_area))
         /\ RatEq(At(last.CD_total.v, i),
                  RatAdd(Rat(DragSum(i), geometry.reference_area),
                         Rat(settings.drag_coefficient_increment, 1)))

\* C4: the drag increment enters CD_total once, not once per wing: CD_total
\* less the increment is the area-weighted drag sum, which does not depend on
\* the increment, and neither does CL_total.
C4_IncrementOnce ==
  (Called /\ NumWings >= 1 /\ WellFormed /\ geometry.reference_area > 0) =>
    /\ last.kind = "return"
    /\ \A i \in 1..NumSamples :
         /\ RatEq(RatAdd(At(last.CD_total.v, i),
                         Rat(0 - settings.drag_coefficient_increment, 1)),
                  Rat(DragSum(i), geometry.reference_area))
         /\ RatEq(At(last.CL_total.v, i), Rat(LiftSum(i), geometry.reference_area))

\* C5: for at least one wing and well-formed curves, CL_total and CD_total
\* are both sequences with one value per angle-of-attack sample, whatever
\* the orientation flags (every wing vertical included).
C5_LengthN ==
  (Called /\ NumWings >= 1 /\ WellFormed /\ geometry.reference_area > 0) =>
    /\ last.kind = "return"
    /\ last.CL_total.shape = "array" /\ Len(last.CL_total.v) = NumSamples
    /\ last.CD_total.shape = "array" /\ Len(last.CD_total.v) = NumSamples

\* the ways the code can fail over a shape or a key
ShapeMismatch == {"MissingKey", "IncompatibleShapes", "IndexError"}

\* C6: a call with a wing whose tag is missing from a curve mapping, or with
\* a lift or drag array not as long as alpha, fails over the shape or the key
\* and returns nothing (the geometry being valid).
C6_ShapeMismatch ==
  (Called /\ ~WellFormed /\ geometry.reference_area > 0) =>
    last.kind = "raise" /\ last.err \in ShapeMismatch /\ last.CL_total = NoValue

\* C7: a call with total reference area <= 0 (the wings and their curves
\* being well-formed) fails with InvalidGeometry and returns nothing.
C7_InvalidGeometry ==
  (Called /\ NumWings >= 1 /\ WellFormed /\ geometry.reference_area <= 0) =>
    last.kind = "raise" /\ last.err = "InvalidGeometry" /\ last.CL_total = NoValue

\* C8: drag_total returns the aggregate that lift_drag_total computed for
\* the curves state now holds, and fails when no such aggregate was computed.
C8_DragTotal ==
  last.op = "drag_total" =>
    IF fresh
    THEN last.kind = "return" /\ last.result = aero.drag_coefficient
    ELSE last.kind = "raise" /\ last.err = "MissingAttribute"

\* C9 as stated: after a call, the state, settings and geometry objects are
\* what they were before it.
C9_NoSideEffect ==
  Called => Given(aero, settings, geometry) = last.before

\* C9, amended: a call leaves settings, geometry, the angle of attack and
\* both curve mappings as they were; when it returns, lift_coefficient and
\* drag_coefficient of state hold the two values it returned (its one side
\* effect), and when it raises they hold what they held before; a call
\* directly after another call gives the same outcome.
C9_OnlyOutputsPacked ==
  Called =>
    /\ settings = last.before.settings
    /\ geometry = last.before.geometry
    /\ aero.angle_of_attack = last.before.aero.angle_of_attack
    /\ aero.pre_stall_coefficients = last.before.aero.pre_stall_coefficients
    /\ aero.post_stall_coefficients = last.before.aero.post_stall_coefficients
    /\ last.kind = "return" =>
         /\ aero.lift_coefficient = last.CL_total
         /\ aero.drag_coefficient = last.CD_total
    /\ last.kind = "raise" => aero = last.before.aero
    /\ last.prev.op = "lift_drag_total" =>
         /\ last.kind = last.prev.kind
         /\ last.err = last.prev.err
         /\ last.CL_total = last.prev.CL_total
         /\ last.CD_total = last.prev.CD_total

\* a call returned and state's drag_coefficient is not what it was
C9_Witness ==
  /\ Called /\ last.kind = "return"
  /\ aero.drag_coefficient # last.before.aero.drag_coefficient
  /\ aero.drag_coefficient = last.CD_total

\* C10: when a call fails in the loop over the wings, it returns nothing and
\* lift_coefficient and drag_coefficient of state hold what they held before
\* the call.
C10_NoPartialResult ==
  (Called /\ last.kind = "raise") =>
    /\ last.CL_total = NoValue /\ last.CD_total = NoValue
    /\ aero.lift_coefficient = last.before.aero.lift_coefficient
    /\ aero.drag_coefficient = last.before.aero.drag_coefficient

\* a call over two wings, the second one's tag missing from a mapping, failed
\* while state held outputs of an earlier evaluation
C10_Witness ==
  /\ Called /\ last.kind = "raise"
  /\ NumWings >= 2
  /\ Pre(1).present /\ Post(1).present
  /\ ~(Pre(2).present /\ Post(2).present)
  /\ last.before.aero.drag_coefficient.present
  /\ aero.drag_coefficient = last.before.aero.drag_coefficient

====
